---- MODULE Spec2Model ----
(***************************************************************************)
(* Model of the URL preview component App of SSRFPOCApp.tsx: its State,    *)
(* the three UI handlers (onUrlChanged, handleMakeRequest, clearResults)   *)
(* and the two continuations of the awaited HTTPClient.get in makeRequest. *)
(*                                                                         *)
(* Encoding.  A JS string is a sequence of tokens (single characters for   *)
(* user text, whole literals for the fixed parts of a template string), so *)
(* '' is <<>> and a template string is a concatenation.  A nullable value  *)
(* is null == <<>> or Some(v) == <<v>>.  A Uint8Array is a sequence of     *)
(* byte values.                                                            *)
(***************************************************************************)
EXTENDS Integers, Sequences, FiniteSets, TLC

\* ---- bounds of the model ------------------------------------------------
MaxUrlLen == 2
MaxBodyLen == 2
MaxRequests == 2

\* ---- values -------------------------------------------------------------
null == <<>>
Some(v) == <<v>>

BoundedSeq(S, n) == UNION {[1..k -> S] : k \in 0..n}

\* characters a user can type: one whitespace and one non-whitespace
Chars == {" ", "a"}
Texts == BoundedSeq(Chars, MaxUrlLen)

\* payload bytes: 72 is ASCII 'H', 255 can never occur in UTF-8
Bytes == {72, 255}
Bodies == {null} \cup {Some(b) : b \in BoundedSeq(Bytes, MaxBodyLen)}
StatusCodes == {200, 404}
Responses == [statusCode : StatusCodes, body : Bodies]

\* values a rejected get() can carry: undefined, a thrown string, an Error
RejectedErrors ==
    { null,
      Some([name |-> "", message |-> <<"timeout">>]),
      Some([name |-> "Error", message |-> <<"DNS lookup failed">>]) }

\* ---- String.prototype.trim ----------------------------------------------
IsWhitespace(c) == c = " "

RECURSIVE TrimStart(_)
TrimStart(s) ==
    IF s = <<>> THEN s
    ELSE IF IsWhitespace(Head(s)) THEN TrimStart(Tail(s)) ELSE s

RECURSIVE TrimEnd(_)
TrimEnd(s) ==
    IF s = <<>> THEN s
    ELSE IF IsWhitespace(s[Len(s)]) THEN TrimEnd(SubSeq(s, 1, Len(s) - 1)) ELSE s

Trim_KeepsWhitespace(s) == s

Trim(s) == TrimEnd(TrimStart(s))

\* ---- the status messages ------------------------------------------------
InitialStatus == <<"Enter a URL to preview its content">>
EmptyUrlError == <<"Error: URL cannot be empty">>
SuccessStatus == <<"Content loaded successfully">>
NoContent == <<"[No content]">>
LoadingStatus(requestUrl) == <<"Loading ">> \o requestUrl \o <<"...">>

\* error?.toString(): a string is itself, an Error is "name: message"
ErrorToString(e) ==
    IF e.name = "" THEN e.message
    ELSE IF e.message = <<>> THEN <<e.name>>
    ELSE <<e.name, ": ">> \o e.message

ErrorStatus(error) ==
    <<"Error: ">> \o (IF error = null THEN <<"Unknown error">> ELSE ErrorToString(error[1]))

\* ---- TextDecoder().decode and the body shown ------------------------------
IsTextByte(b) == b < 128
DecodeByte(b) == IF b = 72 THEN "H" ELSE "U+FFFD"
DecodeThrows(bytes, fatal) == fatal /\ \E i \in 1..Len(bytes) : ~IsTextByte(bytes[i])
Decode(bytes) == [i \in 1..Len(bytes) |-> DecodeByte(bytes[i])]
BinaryPlaceholder(bytes) == <<"[Binary data, ", ToString(Len(bytes)), " bytes]">>

BodyText_WrongLength(body, fatal) ==
    IF body = null THEN <<>>
    ELSE IF DecodeThrows(body[1], fatal) THEN <<"[Binary data, ", ToString(0), " bytes]">>
    ELSE Decode(body[1])

BodyText(body, fatal) ==
    IF body = null THEN <<>>
    ELSE IF DecodeThrows(body[1], fatal) THEN BinaryPlaceholder(body[1])
    ELSE Decode(body[1])

ResponseBody_NoPlaceholder(bodyText) == bodyText

ResponseBody(bodyText) == IF Len(bodyText) > 0 THEN bodyText ELSE NoContent

\* ---- State and setState -------------------------------------------------
InitialState ==
    [ url |-> <<>>,
      status |-> InitialStatus,
      responseBody |-> <<>>,
      responseStatusCode |-> null,
      loading |-> FALSE ]

setState(st, partial) ==
    [k \in DOMAIN st |-> IF k \in DOMAIN partial THEN partial[k] ELSE st[k]]

UrlChangedState_ResetsStatus(st, text) == setState(st, [url |-> text, status |-> InitialStatus])

UrlChangedState(st, text) == setState(st, [url |-> text])

EmptyUrlState_ClearsResponse(st) ==
    setState(st, [status |-> EmptyUrlError, responseBody |-> <<>>, responseStatusCode |-> null])

EmptyUrlState(st) == setState(st, [status |-> EmptyUrlError])

LoadingState_KeepsResponse(st, requestUrl) ==
    setState(st, [loading |-> TRUE, status |-> LoadingStatus(requestUrl)])

LoadingState_KeepsCode(st, requestUrl) ==
    setState(st, [ loading |-> TRUE,
                   status |-> LoadingStatus(requestUrl),
                   responseBody |-> <<>> ])

LoadingState(st, requestUrl) ==
    setState(st, [ loading |-> TRUE,
                   status |-> LoadingStatus(requestUrl),
                   responseBody |-> <<>>,
                   responseStatusCode |-> null ])

FailureState_NoDescription(st, error) ==
    setState(st, [ loading |-> FALSE,
                   status |-> <<"Error: ", "Unknown error">>,
                   responseBody |-> <<>>,
                   responseStatusCode |-> null ])

FailureState_StaysLoading(st, error) ==
    setState(st, [ status |-> ErrorStatus(error),
                   responseBody |-> <<>>,
                   responseStatusCode |-> null ])

FailureState(st, error) ==
    setState(st, [ loading |-> FALSE,
                   status |-> ErrorStatus(error),
                   responseBody |-> <<>>,
                   responseStatusCode |-> null ])

SuccessState_RejectsNon2xx(st, response, fatal) ==
    IF response.statusCode >= 200 /\ response.statusCode < 300
    THEN setState(st, [ loading |-> FALSE,
                        status |-> SuccessStatus,
                        responseStatusCode |-> Some(response.statusCode),
                        responseBody |-> ResponseBody(BodyText(response.body, fatal)) ])
    ELSE FailureState(st, Some([name |-> "", message |-> <<"HTTP ", ToString(response.statusCode)>>]))

SuccessState_StaysLoading(st, response, fatal) ==
    setState(st, [ status |-> SuccessStatus,
                   responseStatusCode |-> Some(response.statusCode),
                   responseBody |-> ResponseBody(BodyText(response.body, fatal)) ])

SuccessState(st, response, fatal) ==
    setState(st, [ loading |-> FALSE,
                   status |-> SuccessStatus,
                   responseStatusCode |-> Some(response.statusCode),
                   responseBody |-> ResponseBody(BodyText(response.body, fatal)) ])

ClearedState_ResetsLoading(st) == InitialState

ClearedState_KeepsUrl(st) ==
    setState(st, [ status |-> InitialStatus,
                   responseBody |-> <<>>,
                   responseStatusCode |-> null ])

ClearedState_Toggles(st) ==
    setState(st, [ status |-> IF st.status = InitialStatus THEN <<"Cleared">> ELSE InitialStatus,
                   responseBody |-> <<>>,
                   responseStatusCode |-> null,
                   url |-> <<>> ])

ClearedState_KeepsCode(st) ==
    setState(st, [ status |-> InitialStatus,
                   responseBody |-> <<>>,
                   url |-> <<>> ])

ClearedState(st) ==
    setState(st, [ status |-> InitialStatus,
                   responseBody |-> <<>>,
                   responseStatusCode |-> null,
                   url |-> <<>> ])

\* ---- the component -------------------------------------------------------
VARIABLES
    state,       \* this.state
    rendered,    \* onRender has run: urlInput.single() returns the text field
    inputValue,  \* the 'value' attribute of the text field
    pending,     \* the get() calls awaited and not yet settled: [id, url]
    issued,      \* number of calls of HTTPClient.get so far
    completed,   \* status code of the last response since mount or the last clear
    last,        \* the event handled last, with its inputs
    prev         \* the component as it was when that event arrived

vars == <<state, rendered, inputValue, pending, issued, completed, last, prev>>

NoResponse == [statusCode |-> 0, body |-> null]

Event(op, text, response, fatal, error) ==
    [op |-> op, text |-> text, response |-> response, fatal |-> fatal, error |-> error]

Snapshot ==
    [ state |-> state, rendered |-> rendered, inputValue |-> inputValue,
      pending |-> pending, issued |-> issued, op |-> last.op,
      noop |-> (last.op = "preview" /\ prev.state.loading) ]

Log(event) ==
    /\ last' = event
    /\ prev' = Snapshot
    /\ completed' =
          CASE event.op = "response" ->
                 Some(event.response.statusCode)
            [] event.op = "clear" -> null
            [] OTHER -> completed

\* <textfield value={this.state.url}>: a render binds the field to state.url
Rerender(st) == inputValue' = IF rendered THEN st.url ELSE inputValue

\* the URL handleMakeRequest reads: the field when there is one, else state.url
ReadUrl(isRendered, value, st) == IF isRendered THEN Trim(value) ELSE Trim(st.url)

Init ==
    /\ state = InitialState
    /\ rendered = FALSE
    /\ inputValue = <<>>
    /\ pending = {}
    /\ issued = 0
    /\ completed = null
    /\ last = Event("init", <<>>, NoResponse, FALSE, null)
    /\ prev = [ state |-> InitialState, rendered |-> FALSE, inputValue |-> <<>>,
                pending |-> {}, issued |-> 0, op |-> "init", noop |-> FALSE ]

onRender ==
    /\ ~rendered
    /\ rendered' = TRUE
    /\ inputValue' = state.url
    /\ UNCHANGED <<state, pending, issued>>
    /\ Log(Event("render", <<>>, NoResponse, FALSE, null))

onUrlChanged(text) ==
    /\ state' = UrlChangedState(state, text)
    /\ Rerender(state')
    /\ UNCHANGED <<rendered, pending, issued>>
    /\ Log(Event("edit", text, NoResponse, FALSE, null))

\* makeRequest up to its await: the state update and the call of get()
makeRequest(url) ==
    LET requestUrl == IF url # null THEN url[1] ELSE Trim(state.url) IN
    IF requestUrl = <<>>
    THEN /\ state' = EmptyUrlState(state)
         /\ Rerender(state')
         /\ UNCHANGED <<pending, issued>>
    ELSE /\ issued < MaxRequests
         /\ state' = LoadingState(state, requestUrl)
         /\ Rerender(state')
         /\ issued' = issued + 1
         /\ pending' = pending \cup {[id |-> issued + 1, url |-> requestUrl]}

handleMakeRequest_Unguarded ==
    LET url == ReadUrl(rendered, inputValue, state) IN
    /\ IF url = <<>>
       THEN /\ state' = EmptyUrlState(state)
            /\ Rerender(state')
            /\ UNCHANGED <<pending, issued>>
       ELSE makeRequest(Some(url))
    /\ UNCHANGED rendered
    /\ Log(Event("preview", url, NoResponse, FALSE, null))

handleMakeRequest_Busy ==
    LET url == ReadUrl(rendered, inputValue, state) IN
    /\ IF state.loading
       THEN /\ state' = setState(state, [status |-> <<"Error: request in progress">>])
            /\ UNCHANGED <<inputValue, pending, issued>>
       ELSE IF url = <<>>
       THEN /\ state' = EmptyUrlState(state)
            /\ Rerender(state')
            /\ UNCHANGED <<pending, issued>>
       ELSE makeRequest(Some(url))
    /\ UNCHANGED rendered
    /\ Log(Event("preview", url, NoResponse, FALSE, null))

handleMakeRequest ==
    LET url == ReadUrl(rendered, inputValue, state) IN
    /\ IF state.loading
       THEN UNCHANGED <<state, inputValue, pending, issued>>
       ELSE IF url = <<>>
       THEN /\ state' = EmptyUrlState(state)
            /\ Rerender(state')
            /\ UNCHANGED <<pending, issued>>
       ELSE makeRequest(Some(url))
    /\ UNCHANGED rendered
    /\ Log(Event("preview", url, NoResponse, FALSE, null))

\* makeRequest after its await, get() fulfilled with response
getResolved(request, response, fatal) ==
    /\ request \in pending
    /\ pending' = pending \ {request}
    /\ state' = SuccessState(state, response, fatal)
    /\ Rerender(state')
    /\ UNCHANGED <<rendered, issued>>
    /\ Log(Event("response", request.url, response, fatal, null))

getRejected_Retries(request, error) ==
    /\ request \in pending
    /\ IF issued < MaxRequests
       THEN /\ pending' = (pending \ {request}) \cup {[id |-> issued + 1, url |-> request.url]}
            /\ issued' = issued + 1
            /\ state' = setState(state, [status |-> ErrorStatus(error)])
       ELSE /\ pending' = pending \ {request}
            /\ issued' = issued
            /\ state' = FailureState(state, error)
    /\ Rerender(state')
    /\ UNCHANGED rendered
    /\ Log(Event("failure", request.url, NoResponse, FALSE, error))

\* makeRequest after its await, get() rejected with error
getRejected(request, error) ==
    /\ request \in pending
    /\ pending' = pending \ {request}
    /\ state' = FailureState(state, error)
    /\ Rerender(state')
    /\ UNCHANGED <<rendered, issued>>
    /\ Log(Event("failure", request.url, NoResponse, FALSE, error))

clearResults_Cancels ==
    /\ state' = setState(ClearedState(state), [loading |-> FALSE])
    /\ inputValue' = IF rendered THEN <<>> ELSE inputValue
    /\ pending' = {}
    /\ UNCHANGED <<rendered, issued>>
    /\ Log(Event("clear", <<>>, NoResponse, FALSE, null))

clearResults ==
    /\ state' = ClearedState(state)
    /\ inputValue' = IF rendered THEN <<>> ELSE inputValue
    /\ UNCHANGED <<rendered, pending, issued>>
    /\ Log(Event("clear", <<>>, NoResponse, FALSE, null))

Completion ==
    \/ \E request \in pending, response \in Responses, fatal \in BOOLEAN :
          getResolved(request, response, fatal)
    \/ \E request \in pending, error \in RejectedErrors : getRejected(request, error)

Next ==
    \/ onRender
    \/ \E text \in Texts : onUrlChanged(text)
    \/ handleMakeRequest
    \/ clearResults
    \/ \E request \in pending, response \in Responses, fatal \in BOOLEAN :
          getResolved(request, response, fatal)
    \/ \E request \in pending, error \in RejectedErrors : getRejected(request, error)

Spec == Init /\ [][Next]_vars

\* the HTTP client settles every get() it was given
FairSpec == Spec /\ WF_vars(Completion)

\* ---- vocabulary of the properties ------------------------------------------
\* the text the preview tap found in the field (or in state.url without a field)
RawUrl == IF prev.rendered THEN prev.inputValue ELSE prev.state.url
Blank(s) == \A i \in 1..Len(s) : s[i] = " "
Contains(s, sub) == \E i \in 0..(Len(s) - Len(sub)) : SubSeq(s, i + 1, i + Len(sub)) = sub
HasBadByte(bytes) == \E i \in 1..Len(bytes) : bytes[i] = 255

PreviewTap == last.op = "preview"
PreviewWhileLoading == PreviewTap /\ prev.state.loading
PreviewOfBlank == PreviewTap /\ ~prev.state.loading /\ Blank(RawUrl)
PreviewAccepted == PreviewTap /\ ~prev.state.loading /\ ~Blank(RawUrl)
Unchanged ==
    /\ state = prev.state
    /\ inputValue = prev.inputValue
    /\ pending = prev.pending
    /\ issued = prev.issued

\* C1: at most one GET is in flight in every reachable state, and a preview
\* tap made while loading is true issues no GET.
AtMostOneGetInFlight ==
    /\ Cardinality(pending) <= 1
    /\ PreviewWhileLoading => issued = prev.issued /\ pending = prev.pending

AtMostOneGetInFlight_Witness ==
    /\ PreviewWhileLoading
    /\ Cardinality(pending) = 1
    /\ issued = 2

\* C2: a preview tap while loading changes no field of the state and issues no
\* GET, and the dropped tap is not replayed when the request in flight settles:
\* a response or a failure never issues a GET.
PreviewWhileLoadingIsNoOp ==
    /\ PreviewWhileLoading => Unchanged
    /\ last.op \in {"response", "failure"} =>
          issued = prev.issued /\ pending = prev.pending \ {r \in prev.pending : r.url = last.text}

PreviewWhileLoadingIsNoOp_Witness ==
    /\ last.op \in {"response", "failure"}
    /\ prev.noop
    /\ pending = {}

\* C3 as stated: every preview tap that finds a blank URL issues no GET, sets
\* the empty-URL error status and leaves loading false.
BlankPreviewAlwaysSetsError ==
    (PreviewTap /\ Blank(RawUrl)) =>
        /\ issued = prev.issued
        /\ state.status = EmptyUrlError
        /\ state.loading = FALSE

\* C3 amended: a preview tap that finds a blank URL while loading is false
\* issues no GET, sets the empty-URL error status and leaves loading false.
BlankPreviewSetsError ==
    PreviewOfBlank =>
        /\ issued = prev.issued
        /\ pending = prev.pending
        /\ state.status = <<"Error: URL cannot be empty">>
        /\ state.loading = FALSE

BlankPreviewSetsError_Witness ==
    /\ PreviewOfBlank
    /\ RawUrl = <<" ">>
    /\ state.status = EmptyUrlError

\* C4: a preview tap that finds a non-blank URL while loading is false leaves,
\* in that step, loading true, the status 'Loading <trimmed url>...', an empty
\* responseBody and no responseStatusCode, with its GET still outstanding.
AcceptedPreviewEntersLoading ==
    PreviewAccepted =>
        /\ state.loading = TRUE
        /\ state.status = <<"Loading ">> \o Trim(RawUrl) \o <<"...">>
        /\ state.responseBody = <<>>
        /\ state.responseStatusCode = null
        /\ issued = prev.issued + 1
        /\ [id |-> issued, url |-> Trim(RawUrl)] \in pending

AcceptedPreviewEntersLoading_Witness ==
    /\ PreviewAccepted
    /\ prev.state.responseStatusCode # null
    /\ prev.state.responseBody # <<>>
    /\ state.loading

\* C5: a response of any status code and any body ends with loading false, the
\* success status and the returned code in responseStatusCode.
ResponseAlwaysSucceeds ==
    last.op = "response" =>
        /\ state.loading = FALSE
        /\ state.status = <<"Content loaded successfully">>
        /\ state.responseStatusCode = Some(last.response.statusCode)

ResponseAlwaysSucceeds_Witness ==
    /\ last.op = "response"
    /\ last.response.statusCode = 404
    /\ last.fatal
    /\ last.response.body # null
    /\ HasBadByte(last.response.body[1])
    /\ state.responseStatusCode = Some(404)

\* C6: after a response, responseBody is '[No content]' for an absent body or
\* one that decodes to '', '[Binary data, N bytes]' with N the byte length when
\* decoding throws, and the decoded text otherwise.
ResponseBodyByPayload ==
    last.op = "response" =>
        LET body == last.response.body IN
        IF body = null \/ body = Some(<<>>) THEN state.responseBody = <<"[No content]">>
        ELSE IF last.fatal /\ HasBadByte(body[1])
        THEN state.responseBody = <<"[Binary data, ", ToString(Len(body[1])), " bytes]">>
        ELSE /\ Len(state.responseBody) = Len(body[1])
             /\ \A i \in 1..Len(body[1]) :
                   state.responseBody[i] = IF body[1][i] = 72 THEN "H" ELSE "U+FFFD"

ResponseBodyByPayload_Witness ==
    /\ last.op = "response"
    /\ last.response.body = Some(<<72, 255>>)
    /\ last.fatal
    /\ state.responseBody = <<"[Binary data, ", "2", " bytes]">>

\* C7: a failure of the GET ends with loading false, no responseStatusCode, an
\* empty responseBody, the url it found, and an 'Error: ' status that contains
\* the description of the failure.
FailureClearsResponse ==
    last.op = "failure" =>
        /\ state.loading = FALSE
        /\ state.responseStatusCode = null
        /\ state.responseBody = <<>>
        /\ state.url = prev.state.url
        /\ Head(state.status) = "Error: "
        /\ last.error # null => Contains(state.status, last.error[1].message)
        /\ last.error = null => state.status = <<"Error: ", "Unknown error">>

FailureClearsResponse_Witness ==
    /\ last.op = "failure"
    /\ last.error # null
    /\ last.error[1].message = <<"DNS lookup failed">>
    /\ prev.state.url # <<>>
    /\ Contains(state.status, <<"DNS lookup failed">>)

\* C8: when the HTTP client settles every GET, loading true leads to loading
\* false.
LoadingEventuallyEnds == state.loading ~> ~state.loading

LoadingEventuallyEnds_Witness ==
    /\ last.op \in {"response", "failure"}
    /\ prev.op = "clear"
    /\ prev.state.loading
    /\ ~state.loading

\* C9 as stated: after clear() the state is the initial state, loading false
\* included.
ClearRestoresInitialState ==
    last.op = "clear" => state = InitialState

\* C9 amended: after clear() url, status, responseBody and responseStatusCode
\* have their initial values and the field is empty; loading is left as it was,
\* so the state is the initial state exactly when no GET is in flight.
ClearResetsAllButLoading ==
    last.op = "clear" =>
        /\ state.url = <<>>
        /\ state.status = <<"Enter a URL to preview its content">>
        /\ state.responseBody = <<>>
        /\ state.responseStatusCode = null
        /\ state.loading = prev.state.loading
        /\ rendered => inputValue = <<>>
        /\ (state = InitialState) <=> (pending = {})

ClearResetsAllButLoading_Witness ==
    /\ last.op = "clear"
    /\ prev.state.url # <<>>
    /\ state.loading
    /\ pending # {}
    /\ rendered

\* C10: a second clear() right after a clear() changes nothing, the field's
\* value included.
ClearIsIdempotent ==
    (last.op = "clear" /\ prev.op = "clear") => Unchanged

ClearIsIdempotent_Witness ==
    /\ last.op = "clear"
    /\ prev.op = "clear"
    /\ rendered
    /\ pending # {}

\* C11 as stated: responseStatusCode is set exactly when a request has completed
\* with a response since mount or the last clear(), and is absent after a failure.
StatusCodeIffCompletedSinceClear ==
    /\ (state.responseStatusCode # null) <=> (completed # null)
    /\ last.op = "failure" => state.responseStatusCode = null

\* C11 amended: responseStatusCode is set only if a request has completed with a
\* response since mount or the last clear(), and is then the code of the last
\* such response; it is set by every response, and it is absent after a failure,
\* after clear() and from the start of every accepted request.
StatusCodeOnlyIfCompletedSinceClear ==
    /\ state.responseStatusCode # null =>
          completed # null /\ state.responseStatusCode = completed /\ ~state.loading
    /\ last.op = "response" => state.responseStatusCode = Some(last.response.statusCode)
    /\ last.op \in {"failure", "clear"} => state.responseStatusCode = null
    /\ PreviewAccepted => state.responseStatusCode = null

StatusCodeOnlyIfCompletedSinceClear_Witness ==
    /\ completed # null
    /\ state.responseStatusCode = null
    /\ prev.state.responseStatusCode # null
    /\ PreviewAccepted

\* C12 as stated: while loading is true, responseStatusCode and responseBody are
\* those of the previous completed request (its code and its body, which is
\* never empty), or empty when there is none.
LoadingShowsPreviousResponse ==
    state.loading =>
        IF completed = null
        THEN state.responseStatusCode = null /\ state.responseBody = <<>>
        ELSE state.responseStatusCode = completed /\ state.responseBody # <<>>

\* C12 amended: while loading is true, responseStatusCode is absent and
\* responseBody is '': they hold neither the response of the request in flight
\* nor that of the previous completed request.
LoadingShowsNoResponse ==
    state.loading => state.responseStatusCode = null /\ state.responseBody = <<>>

LoadingShowsNoResponse_Witness ==
    /\ state.loading
    /\ completed # null
    /\ pending # {}
    /\ state.responseStatusCode = null
    /\ state.responseBody = <<>>

\* C13: clear() leaves the GET in flight outstanding, and the response that
\* arrives after it is applied to the cleared state: url stays '' next to the
\* success status, the status code and the body of that response.
ClearDoesNotCancel ==
    /\ last.op = "clear" => pending = prev.pending /\ issued = prev.issued
    /\ (last.op = "response" /\ prev.op = "clear") =>
          /\ prev.pending # {}
          /\ state.url = <<>>
          /\ rendered => inputValue = <<>>
          /\ state.status = SuccessStatus
          /\ state.responseStatusCode = Some(last.response.statusCode)
          /\ state.responseBody # <<>>

ClearDoesNotCancel_Witness ==
    /\ last.op = "response"
    /\ prev.op = "clear"
    /\ last.text # <<>>
    /\ state.url = <<>>
    /\ rendered
    /\ inputValue = <<>>
    /\ state.responseStatusCode = Some(200)
    /\ state.responseBody = <<"H">>

\* C14 as stated requires a preview tap that finds a non-blank URL while a GET
\* is outstanding to be accepted, leaving two GETs outstanding.
SecondPreviewAcceptedWhileOutstanding ==
    (PreviewTap /\ ~Blank(RawUrl) /\ prev.pending # {}) =>
        /\ issued = prev.issued + 1
        /\ Cardinality(pending) = 2

\* C14 amended: no preview is accepted while a GET is outstanding, so the GET
\* outstanding is always the newest one issued and a response or failure applied
\* is that of the newest GET; it can be stale only with respect to a clear() or a
\* URL edit made while it was in flight.
OutstandingGetIsNewest ==
    /\ \A r \in pending : r.id = issued
    /\ last.op \in {"response", "failure"} =>
          prev.pending = {[id |-> issued, url |-> last.text]}
    /\ (PreviewTap /\ prev.pending # {}) => issued = prev.issued

OutstandingGetIsNewest_Witness ==
    /\ last.op = "response"
    /\ prev.noop
    /\ ~Blank(prev.state.url)
    /\ Trim(prev.state.url) # last.text
    /\ issued = 1

\* C15: a step issues a GET exactly when it is an accepted preview, which issues
\* one, to the trimmed URL it read; a response or a failure issues none and
\* leaves none outstanding.
OneGetPerAcceptedPreview ==
    /\ issued = prev.issued + (IF PreviewAccepted THEN 1 ELSE 0)
    /\ PreviewAccepted => pending = {[id |-> issued, url |-> Trim(RawUrl)]}
    /\ ~PreviewAccepted => pending \subseteq prev.pending
    /\ last.op \in {"response", "failure"} => pending = {}

OneGetPerAcceptedPreview_Witness ==
    /\ last.op = "failure"
    /\ issued = 2
    /\ pending = {}
    /\ prev.pending # {}

\* C16: a URL edit sets url to the text of the event and changes nothing else,
\* with or without a GET in flight.
EditChangesOnlyUrl ==
    last.op = "edit" =>
        /\ state.url = last.text
        /\ state.status = prev.state.status
        /\ state.responseBody = prev.state.responseBody
        /\ state.responseStatusCode = prev.state.responseStatusCode
        /\ state.loading = prev.state.loading
        /\ pending = prev.pending
        /\ issued = prev.issued

EditChangesOnlyUrl_Witness ==
    /\ last.op = "edit"
    /\ state.loading
    /\ pending # {}
    /\ last.text # prev.state.url
    /\ state.status # InitialStatus

\* C17: loading is true exactly when one GET is outstanding; clear() leaves
\* loading as it was, and a preview tap with a GET outstanding changes nothing.
LoadingIffOneGetOutstanding ==
    /\ state.loading <=> Cardinality(pending) = 1
    /\ ~state.loading <=> pending = {}
    /\ last.op = "clear" => state.loading = prev.state.loading
    /\ (PreviewTap /\ prev.pending # {}) => Unchanged

LoadingIffOneGetOutstanding_Witness ==
    /\ PreviewTap
    /\ prev.op = "clear"
    /\ prev.pending # {}
    /\ state.loading
    /\ state.status = InitialStatus

\* C18: responseBody is non-empty exactly when responseStatusCode is set, and
\* both are empty while loading is true.
BodyIffStatusCode ==
    /\ (state.responseBody # <<>>) <=> (state.responseStatusCode # null)
    /\ state.loading => state.responseBody = <<>> /\ state.responseStatusCode = null

BodyIffStatusCode_Witness ==
    /\ last.op = "response"
    /\ last.response.body \in {null, Some(<<>>)}
    /\ state.responseBody = <<"[No content]">>
    /\ state.responseStatusCode # null

\* C19: a preview rejected for a blank URL while loading is false changes
\* status only; the body and status code of an earlier response stay.
BlankPreviewChangesOnlyStatus ==
    PreviewOfBlank =>
        /\ state.status = EmptyUrlError
        /\ state.url = prev.state.url
        /\ state.responseBody = prev.state.responseBody
        /\ state.responseStatusCode = prev.state.responseStatusCode
        /\ state.loading = prev.state.loading
        /\ inputValue = prev.inputValue
        /\ pending = prev.pending
        /\ issued = prev.issued

BlankPreviewChangesOnlyStatus_Witness ==
    /\ PreviewOfBlank
    /\ prev.state.responseStatusCode # null
    /\ state.responseStatusCode # null
    /\ state.responseBody # <<>>
    /\ state.status = EmptyUrlError

====
